---- MODULE Spec2Model ----
(***************************************************************************)
(* Model of recommendation_system/app.py: the age-bucket mapping, the      *)
(* song search, the similarity recommender get_similar_songs_optimized     *)
(* and the Streamlit session of main().                                    *)
(*                                                                         *)
(* A catalog (the dataframe df) is a sequence of runs: a run is n          *)
(* consecutive rows with the same column values.  Row positions are        *)
(* 0-based as in pandas; df has a RangeIndex, so labels and positions      *)
(* coincide.  A frame (a row selection of df, in order) is a sequence of   *)
(* segments [t, lo, hi]: the rows lo..hi of df, all with column values t.  *)
(*                                                                         *)
(* Audio features are integers in tenths (0.6 is 6).  Scores are fixed     *)
(* point in thousandths; NaN is a distinguished value.                     *)
(***************************************************************************)
EXTENDS Integers, Sequences, FiniteSets, TLC

VARIABLES df, selected_song, selected_song_idx, search_query, screen, call,
          age_in, group_out, prev_age, prev_group, results

vars == <<df, selected_song, selected_song_idx, search_query, screen, call,
          age_in, group_out, prev_age, prev_group, results>>

\* Python None and a present value x
None == << >>
Some(x) == << x >>

\* a function on 1..n as an explicit sequence: TLC then computes each
\* element once instead of at every application
List(f) == << >> \o f
\* A float is [nan, v]: v in fixed point, or NaN.  Every comparison with
\* NaN is false, as in IEEE 754
Float(v) == [nan |-> FALSE, v |-> v]
NaN == [nan |-> TRUE, v |-> 0]
FloatGt(a, b) == ~a.nan /\ ~b.nan /\ a.v > b.v
FloatGe(a, b) == ~a.nan /\ ~b.nan /\ a.v >= b.v

\* ------------------------------------------------------------------------
\* Bounds of the model
\* ------------------------------------------------------------------------
MaxRuns == 2

\* ------------------------------------------------------------------------
\* age_groups and AUDIO_FEATURES
\* ------------------------------------------------------------------------
age_groups ==
  "Teen" :>
      [ genres |-> {"pop", "hip-hop", "edm", "dance", "electronic"},
        min_danceability |-> 6, min_energy |-> 7, min_valence |-> 5,
        description |-> "High energy, danceable pop and hip-hop hits" ] @@
  "Young Adult" :>
      [ genres |-> {"pop", "indie", "rock", "alternative", "hip-hop"},
        min_danceability |-> 5, min_energy |-> 6, min_valence |-> 4,
        description |-> "Mix of popular and indie tracks with good energy" ] @@
  "Adult" :>
      [ genres |-> {"rock", "jazz", "acoustic", "blues", "folk", "country"},
        min_danceability |-> 4, min_energy |-> 5, min_valence |-> 3,
        description |-> "More mature sounds with acoustic and rock elements" ] @@
  "Senior" :>
      [ genres |-> {"classical", "jazz", "acoustic", "blues", "folk", "oldies"},
        min_danceability |-> 3, min_energy |-> 4, min_valence |-> 3,
        description |-> "Timeless classics and acoustic sounds" ]

AUDIO_FEATURES ==
  << "danceability", "energy", "loudness", "speechiness", "acousticness",
     "instrumentalness", "liveness", "valence", "tempo" >>

\* ------------------------------------------------------------------------
\* get_age_group
\* ------------------------------------------------------------------------
get_age_group_le(age) ==
  IF age <= 20 THEN "Teen"
  ELSE IF age <= 30 THEN "Young Adult"
  ELSE IF age <= 50 THEN "Adult"
  ELSE "Senior"

get_age_group(age) ==
  IF age < 20 THEN "Teen"
  ELSE IF age < 30 THEN "Young Adult"
  ELSE IF age < 50 THEN "Adult"
  ELSE "Senior"

\* ------------------------------------------------------------------------
\* Strings: a text is a sequence of one-character strings
\* ------------------------------------------------------------------------
LowerChar(c) == IF c = "A" THEN "a" ELSE IF c = "B" THEN "b" ELSE c

\* str.lower()
StrLower(s) == List([i \in 1..Len(s) |-> LowerChar(s[i])])

\* str.lower() of a genre name (genres are whole strings in the model)
GenreLower(g) ==
  CASE g = "POP" -> "pop"
    [] g = "Pop" -> "pop"
    [] OTHER -> g

\* re.search(pat, text) for a pattern of literals and ".", which is what
\* Series.str.contains(pat) evaluates (regex=True is the pandas default)
RegexContains(text, pat) ==
  \E i \in 0..(Len(text) - Len(pat)) :
     \A k \in 1..Len(pat) : pat[k] = "." \/ pat[k] = text[i + k]

\* ------------------------------------------------------------------------
\* The bounded catalogs
\* ------------------------------------------------------------------------
Tracks ==
  { [ track_name |-> <<"a", "B">>, artists |-> <<"A">>, track_genre |-> "POP",
      popularity |-> 80, danceability |-> 8, energy |-> 8, loudness |-> 6,
      speechiness |-> 1, acousticness |-> 1, instrumentalness |-> 0,
      liveness |-> 2, valence |-> 6, tempo |-> 7 ],
    [ track_name |-> <<"a">>, artists |-> <<"b", "a">>, track_genre |-> "classical",
      popularity |-> 0, danceability |-> 1, energy |-> 1, loudness |-> 1,
      speechiness |-> 0, acousticness |-> 9, instrumentalness |-> 9,
      liveness |-> 1, valence |-> 9, tempo |-> 2 ],
    [ track_name |-> <<"b", ".">>, artists |-> <<"a", "b">>, track_genre |-> "metal",
      popularity |-> 50, danceability |-> 5, energy |-> 5, loudness |-> 9,
      speechiness |-> 2, acousticness |-> 0, instrumentalness |-> 3,
      liveness |-> 4, valence |-> 1, tempo |-> 9 ] }

RunSizes == {1, 99, 100, 5001}

RunSet == [t : Tracks, n : RunSizes]

Catalogs == UNION { [1..k -> RunSet] : k \in 1..MaxRuns }

\* ------------------------------------------------------------------------
\* Frames: row selections of df
\* ------------------------------------------------------------------------
RECURSIVE DfFrameFrom(_, _, _)
DfFrameFrom(cat, i, pos) ==
  IF i > Len(cat) THEN << >>
  ELSE << [t |-> cat[i].t, lo |-> pos, hi |-> pos + cat[i].n - 1] >>
       \o DfFrameFrom(cat, i + 1, pos + cat[i].n)

\* all rows of df, in order
DfFrame(cat) == DfFrameFrom(cat, 1, 0)

SegLen(s) == s.hi - s.lo + 1

RECURSIVE FrameLen(_)
\* len(frame)
FrameLen(f) == IF f = << >> THEN 0 ELSE SegLen(Head(f)) + FrameLen(Tail(f))

\* df.iloc[pos]
RowAt(cat, pos) ==
  LET f == DfFrame(cat)
  IN  f[CHOOSE i \in 1..Len(f) : f[i].lo <= pos /\ pos <= f[i].hi].t

RECURSIVE HeadFrame(_, _)
\* frame.head(n)
HeadFrame(f, n) ==
  IF n <= 0 \/ f = << >> THEN << >>
  ELSE IF SegLen(Head(f)) >= n
       THEN << [Head(f) EXCEPT !.hi = Head(f).lo + n - 1] >>
       ELSE << Head(f) >> \o HeadFrame(Tail(f), n - SegLen(Head(f)))

RECURSIVE FrameRows(_)
\* the row labels of a (short) frame, in frame order
FrameRows(f) ==
  IF f = << >> THEN << >>
  ELSE [i \in 1..SegLen(Head(f)) |-> Head(f).lo + i - 1] \o FrameRows(Tail(f))

RECURSIVE FrameKeys(_)
\* the sort keys of the rows of a (short) keyed frame, in frame order
FrameKeys(f) ==
  IF f = << >> THEN << >>
  ELSE [i \in 1..SegLen(Head(f)) |-> Head(f).k] \o FrameKeys(Tail(f))

\* a keyed frame (each segment with the sort key of its rows in field k)
\* without the keys
Unkeyed(f) == List([i \in 1..Len(f) |-> [t |-> f[i].t, lo |-> f[i].lo, hi |-> f[i].hi]])

RECURSIVE InsertDesc(_, _)
\* insert segment s after every segment whose key is not below its own;
\* a NaN key is below every number
InsertDesc(sorted, s) ==
  IF sorted = << >> THEN << s >>
  ELSE IF ~s.k.nan /\ (Head(sorted).k.nan \/ FloatGt(s.k, Head(sorted).k))
       THEN << s >> \o sorted
       ELSE << Head(sorted) >> \o InsertDesc(Tail(sorted), s)

RECURSIVE SortDesc(_, _)
SortDesc(f, i) ==
  IF i = 0 THEN << >>
  ELSE InsertDesc(SortDesc(f, i - 1), f[i])

\* frame.nlargest(n, column) with keep='first' on a keyed frame: descending
\* by key, ties in order of appearance, NaN keys after every number
NLargest(f, n) == HeadFrame(SortDesc(f, Len(f)), n)

RECURSIVE DropLabel(_, _)
\* frame.index[frame.index != label] as a frame
DropLabel(f, label) ==
  IF f = << >> THEN << >>
  ELSE LET s == Head(f)
       IN  IF label < s.lo \/ label > s.hi THEN << s >> \o DropLabel(Tail(f), label)
           ELSE (IF s.lo < label THEN << [s EXCEPT !.hi = label - 1] >> ELSE << >>)
                \o (IF label < s.hi THEN << [s EXCEPT !.lo = label + 1] >> ELSE << >>)
                \o Tail(f)

\* ------------------------------------------------------------------------
\* search_songs
\* ------------------------------------------------------------------------
SearchMatch(t, query) ==
  \/ RegexContains(StrLower(t.track_name), query)
  \/ RegexContains(StrLower(t.artists), query)

search_songs(cat, query) ==
  IF query = << >> THEN << >>
  ELSE LET q == StrLower(query)
           matches == SelectSeq(DfFrame(cat), LAMBDA s : SearchMatch(s.t, q))
       IN  HeadFrame(matches, 20)

\* ------------------------------------------------------------------------
\* Arithmetic helpers
\* ------------------------------------------------------------------------
RECURSIVE SumSeq(_)
SumSeq(q) == IF q = << >> THEN 0 ELSE Head(q) + SumSeq(Tail(q))

RECURSIVE ISqrtFrom(_, _)
\* Newton's iteration for the integer square root of n > 0, from x with
\* x * x >= n
ISqrtFrom(n, x) ==
  LET y == (x + n \div x) \div 2
  IN  IF y >= x THEN x ELSE ISqrtFrom(n, y)

\* the largest r with r * r <= n
ISqrt(n) ==
  IF n = 0 THEN 0
  ELSE IF n < 10000 THEN ISqrtFrom(n, 100)
  ELSE IF n < 1000000 THEN ISqrtFrom(n, 1000)
  ELSE IF n < 100000000 THEN ISqrtFrom(n, 10000)
  ELSE ISqrtFrom(n, 46341)

\* the double (m / 10) - 0.3 in hundredths.  0.7 - 0.3 is
\* 0.39999999999999997 and 0.4 - 0.3 is 0.10000000000000003: one hundredth
\* stands for the rounding error, which decides the comparison only for a
\* value equal to the decimal difference
FloatMinus03(m) ==
  CASE m = 7 -> 39
    [] m = 4 -> 11
    [] OTHER -> (m - 3) * 10

\* a / b as pandas divides an integer column by a numpy integer: 0 / 0 is
\* NaN and nothing is raised (popularity is not negative, so a <= b and
\* b = 0 only with a = 0); in thousandths
FloatDiv(a, b) == IF b = 0 THEN NaN ELSE Float((a * 1000) \div b)

\* ------------------------------------------------------------------------
\* calculate_similarity_on_demand
\* ------------------------------------------------------------------------
\* all_features: the selected row, then the candidate rows; a weighted row
\* [x, n] stands for n equal rows with feature vector x
FeatureVec(t) == List([j \in 1..Len(AUDIO_FEATURES) |-> t[AUDIO_FEATURES[j]]])

AllFeatures(selected, candidates) ==
  << [x |-> FeatureVec(selected), n |-> 1] >>
  \o List([i \in 1..Len(candidates) |->
             [x |-> FeatureVec(candidates[i].t), n |-> SegLen(candidates[i])]])

\* StandardScaler.fit_transform: (x - mean) / std per column, population
\* std, a zero std replaced by 1; in hundredths.  With m rows, column sum s
\* and sum of squares q: x - mean = (m*x - s) / m, std = sqrt(m*q - s*s) / m
StandardScale(rows) ==
  LET m == SumSeq(List([i \in 1..Len(rows) |-> rows[i].n]))
      s(j) == SumSeq(List([i \in 1..Len(rows) |-> rows[i].n * rows[i].x[j]]))
      q(j) == SumSeq(List([i \in 1..Len(rows) |-> rows[i].n * rows[i].x[j] * rows[i].x[j]]))
      col == List([j \in 1..Len(AUDIO_FEATURES) |->
                     LET sj == s(j)
                     IN  [s |-> sj, sd |-> ISqrt(m * q(j) - sj * sj)]])
  IN  List([i \in 1..Len(rows) |->
        List([j \in 1..Len(AUDIO_FEATURES) |->
           IF col[j].sd = 0 THEN (m * rows[i].x[j] - col[j].s) \div m
           ELSE ((m * rows[i].x[j] - col[j].s) * 100) \div col[j].sd])])

\* sklearn normalize: x / ||x||, a zero norm replaced by 1; in thousandths
Normalize(v) ==
  LET norm == ISqrt(SumSeq(List([j \in 1..Len(v) |-> v[j] * v[j]])))
  IN  List([j \in 1..Len(v) |-> IF norm = 0 THEN v[j] * 10 ELSE (v[j] * 1000) \div norm])

\* cosine_similarity of the first row against each other row: the dot
\* products of the normalized rows; in thousandths
CosineSimilarity(rows) ==
  LET normalized == List([i \in 1..Len(rows) |-> Normalize(rows[i])])
  IN  List([i \in 1..(Len(rows) - 1) |->
        SumSeq(List([j \in 1..Len(AUDIO_FEATURES) |-> normalized[1][j] * normalized[i + 1][j]]))
          \div 1000])

\* similarities[i]: one value per candidate segment
calculate_similarity_on_demand(selected, candidates) ==
  CosineSimilarity(StandardScale(AllFeatures(selected, candidates)))

\* ------------------------------------------------------------------------
\* get_similar_songs_optimized
\* ------------------------------------------------------------------------
\* the row mask of the age pre-filter, with valence as a fourth alternative
AgeMatchValence(t, age_prefs) ==
  \/ GenreLower(t.track_genre) \in { GenreLower(g) : g \in age_prefs.genres }
  \/ t.danceability * 10 >= FloatMinus03(age_prefs.min_danceability)
  \/ t.energy * 10 >= FloatMinus03(age_prefs.min_energy)
  \/ t.valence * 10 >= FloatMinus03(age_prefs.min_valence)

\* the row mask of the age pre-filter
AgeMatch(t, age_prefs) ==
  \/ GenreLower(t.track_genre) \in { GenreLower(g) : g \in age_prefs.genres }
  \/ t.danceability * 10 >= FloatMinus03(age_prefs.min_danceability)
  \/ t.energy * 10 >= FloatMinus03(age_prefs.min_energy)

\* a frame keyed by the popularity column
ByPopularity(f) ==
  List([i \in 1..Len(f) |->
          [t |-> f[i].t, lo |-> f[i].lo, hi |-> f[i].hi, k |-> Float(f[i].t.popularity)]])

\* the cap step keeping the first 5000 rows in place of the most popular
CapPoolHead(age_filtered) ==
  IF FrameLen(age_filtered) > 5000
  THEN HeadFrame(age_filtered, 5000)
  ELSE age_filtered

\* age_filtered after the cap step
CapPool(age_filtered) ==
  IF FrameLen(age_filtered) > 5000
  THEN Unkeyed(NLargest(ByPopularity(age_filtered), 5000))
  ELSE age_filtered

\* age_filtered after the expand step
ExpandPool(cat, age_filtered) ==
  IF FrameLen(age_filtered) < 100
  THEN Unkeyed(NLargest(ByPopularity(DfFrame(cat)), 2000))
  ELSE age_filtered

RECURSIVE MaxSeq(_)
MaxSeq(q) ==
  IF Len(q) = 1 THEN Head(q)
  ELSE LET r == MaxSeq(Tail(q)) IN IF Head(q) >= r THEN Head(q) ELSE r

\* candidates_df with the columns similarity_score and combined_score; the
\* popularity term is kept beside them
ScoreCandidates(selected, candidates) ==
  LET similarities == calculate_similarity_on_demand(selected, candidates)
      max_popularity == MaxSeq(List([i \in 1..Len(candidates) |-> candidates[i].t.popularity]))
  IN  List([i \in 1..Len(candidates) |->
        LET pop_term == FloatDiv(candidates[i].t.popularity, max_popularity)
        IN  [ t |-> candidates[i].t, lo |-> candidates[i].lo, hi |-> candidates[i].hi,
              similarity_score |-> Float(similarities[i]),
              pop_term |-> pop_term,
              combined_score |->
                IF pop_term.nan THEN NaN
                ELSE Float((7 * similarities[i] + 3 * pop_term.v) \div 10) ]])

\* the function up to its return statements: the pre-filter, the pool, the
\* candidates and, on the scoring path, the scored candidates and the top
\* rows with their combined scores
SimilarSongs(cat, idx, age, num_recommendations) ==
  LET age_group == get_age_group(age)
      age_prefs == age_groups[age_group]
      pre_filter == SelectSeq(DfFrame(cat), LAMBDA s : AgeMatch(s.t, age_prefs))
      age_filtered == ExpandPool(cat, CapPool(pre_filter))
      candidate_indices == DropLabel(age_filtered, idx)
      candidates_df == IF candidate_indices = << >> THEN << >>
                       ELSE ScoreCandidates(RowAt(cat, idx), candidate_indices)
      recommendations ==
        NLargest(List([i \in 1..Len(candidates_df) |->
                         [ t |-> candidates_df[i].t, lo |-> candidates_df[i].lo,
                           hi |-> candidates_df[i].hi, k |-> candidates_df[i].combined_score ]]),
                 num_recommendations)
  IN  [ idx |-> idx,
        age |-> age,
        num_recommendations |-> num_recommendations,
        age_group |-> age_group,
        description |-> age_prefs.description,
        pre_filter |-> pre_filter,
        age_filtered |-> age_filtered,
        candidates_df |-> candidates_df,
        path |-> IF candidate_indices = << >> THEN "sample" ELSE "scored",
        outcome |-> "returned",
        rows |-> FrameRows(recommendations),
        scores |-> FrameKeys(recommendations) ]

\* df.sample(n): n distinct rows chosen at random; ValueError (no outcome
\* here) when n exceeds len(df)
Sample(cat, n) ==
  LET len == FrameLen(DfFrame(cat))
  IN  IF n > len THEN { }
      ELSE { r \in [1..n -> 0..(len - 1)] : \A i, j \in 1..n : i /= j => r[i] /= r[j] }

\* the possible results of one call: what it returns (rows, age_group,
\* description) or outcome "raised" when the call raises
get_similar_songs_optimized(cat, idx, age, num_recommendations) ==
  LET r == SimilarSongs(cat, idx, age, num_recommendations)
  IN  IF r.path = "scored" THEN { r }
      ELSE IF Sample(cat, num_recommendations) = { }
           THEN { [r EXCEPT !.outcome = "raised"] }
           ELSE { [r EXCEPT !.rows = rows] : rows \in Sample(cat, num_recommendations) }

\* ------------------------------------------------------------------------
\* Inputs
\* ------------------------------------------------------------------------
\* st.number_input(min_value=10, max_value=100, value=25)
AgeMin == 10
AgeMax == 100
AgeDefault == 25

\* st.slider(min_value=5, max_value=15, value=8)
NumRecsMin == 5
NumRecsMax == 15
NumRecsDefault == 8

\* ages given to get_similar_songs_optimized: the ends of every bucket
Ages == {AgeMin, 19, 20, 29, 30, 49, 50, AgeMax}

\* num_recommendations given to get_similar_songs_optimized
NumRecs == {1, NumRecsMin, NumRecsMax}

\* the sidebar values tried in the session
SidebarAges == {AgeDefault, AgeMax}
SidebarNumRecs == {NumRecsMin, NumRecsDefault}

\* selected_song_idx given to get_similar_songs_optimized: the first and
\* the last row of every run
CallIdxs(cat) ==
  LET f == DfFrame(cat) IN { f[i].lo : i \in 1..Len(f) } \cup { f[i].hi : i \in 1..Len(f) }

\* what the user types into the search box
Queries == { << >>, <<"a">>, <<"A", "b">>, <<".">>, <<"b", "a">>, <<"a", "a">> }

\* ------------------------------------------------------------------------
\* The functions called on their own
\* ------------------------------------------------------------------------
Idle ==
  /\ selected_song = None
  /\ selected_song_idx = None
  /\ search_query = << >>
  /\ results = << >>
  /\ call = None
  /\ age_in = None
  /\ group_out = None
  /\ prev_age = None
  /\ prev_group = None

InitFn ==
  /\ df \in Catalogs
  /\ screen = "none"
  /\ Idle

CallAgeGroup ==
  \E age \in AgeMin..AgeMax :
     /\ age_in' = Some(age)
     /\ group_out' = Some(get_age_group(age))
     /\ prev_age' = age_in
     /\ prev_group' = group_out
     /\ UNCHANGED <<df, selected_song, selected_song_idx, search_query, screen, call, results>>

CallSearch ==
  \E query \in Queries :
     /\ search_query' = query
     /\ results' = search_songs(df, query)
     /\ UNCHANGED <<df, selected_song, selected_song_idx, screen, call,
                    age_in, group_out, prev_age, prev_group>>

CallSimilar ==
  /\ call = None
  /\ \E idx \in CallIdxs(df), age \in Ages, n \in NumRecs :
     \E c \in get_similar_songs_optimized(df, idx, age, n) :
        /\ call' = Some(c)
        /\ UNCHANGED <<df, selected_song, selected_song_idx, search_query, screen,
                       results, age_in, group_out, prev_age, prev_group>>

InitAge ==
  /\ df = << [t |-> CHOOSE t \in Tracks : TRUE, n |-> 1] >>
  /\ screen = "none"
  /\ Idle

SpecAge == InitAge /\ [][CallAgeGroup]_vars

SpecSearch == InitFn /\ [][CallSearch]_vars

SpecFn == InitFn /\ [][CallSimilar]_vars

\* ------------------------------------------------------------------------
\* main: one action is one click followed by the script runs it causes
\* ------------------------------------------------------------------------
\* the branch of the main content area that a run renders, always Step 2
MainContentStep2(selected) == "step2"

\* the branch of the main content area that a run renders
MainContent(selected) == IF selected = None THEN "step1" ELSE "step2"

\* df.nlargest(10, 'popularity')
popular_songs(cat) == Unkeyed(NLargest(ByPopularity(DfFrame(cat)), 10))

\* the Select handler with the position in the displayed list stored in
\* place of the row label
SelectSongListPosition(cat, df_idx, idx) ==
  [ selected_song |-> Some(RowAt(cat, df_idx)), selected_song_idx |-> Some(idx) ]

\* the Select handler: idx is the position in the displayed list, df_idx
\* the row label
SelectSong(cat, df_idx, idx) ==
  [ selected_song |-> Some(RowAt(cat, df_idx)), selected_song_idx |-> Some(df_idx) ]

\* the buttons of a displayed list that the user clicks: the first and the
\* last one
Clicks(f) == LET rows == FrameRows(f) IN { i \in 1..Len(rows) : i = 1 \/ i = Len(rows) }

Init ==
  /\ df \in Catalogs
  /\ screen = MainContent(None)
  /\ Idle

\* a run that renders no search results and calls nothing
\* (the search box is not rendered on the Step 2 screen, and Streamlit
\* drops the value of a widget that a run does not render)
NothingShown ==
  /\ search_query' = << >>
  /\ results' = << >>
  /\ call' = None

TypeQuery ==
  /\ screen = "step1"
  /\ \E query \in Queries :
        /\ search_query' = query
        /\ results' = IF query /= << >> THEN search_songs(df, query) ELSE << >>
  /\ call' = None
  /\ screen' = MainContent(selected_song)
  /\ UNCHANGED <<df, selected_song, selected_song_idx, age_in, group_out, prev_age, prev_group>>

SelectSearchResult ==
  /\ screen = "step1"
  /\ \E idx \in Clicks(results) :
        LET s == SelectSong(df, FrameRows(results)[idx], idx - 1)
        IN  /\ selected_song' = s.selected_song
            /\ selected_song_idx' = s.selected_song_idx
  /\ NothingShown
  /\ screen' = MainContent(selected_song')
  /\ UNCHANGED <<df, age_in, group_out, prev_age, prev_group>>

SelectPopular ==
  /\ screen = "step1"
  /\ \E idx \in Clicks(popular_songs(df)) :
        LET s == SelectSong(df, FrameRows(popular_songs(df))[idx], idx - 1)
        IN  /\ selected_song' = s.selected_song
            /\ selected_song_idx' = s.selected_song_idx
  /\ NothingShown
  /\ screen' = MainContent(selected_song')
  /\ UNCHANGED <<df, age_in, group_out, prev_age, prev_group>>

ClearSelection ==
  /\ selected_song /= None
  /\ selected_song' = None
  /\ selected_song_idx' = None
  /\ NothingShown
  /\ screen' = MainContent(selected_song')
  /\ UNCHANGED <<df, age_in, group_out, prev_age, prev_group>>

\* the button is rendered after the recommendations: a run whose request
\* raised returns before it
ChooseDifferentSong ==
  /\ screen = "step2"
  /\ IF call = None THEN TRUE ELSE call[1].outcome /= "raised"
  /\ selected_song' = None
  /\ selected_song_idx' = None
  /\ NothingShown
  /\ screen' = MainContent(selected_song')
  /\ UNCHANGED <<df, age_in, group_out, prev_age, prev_group>>

\* the call record of a call that raised before computing anything
RaisedCall(age, n) ==
  [ idx |-> None, age |-> age, num_recommendations |-> n, path |-> "none",
    outcome |-> "raised" ]

GetSimilarSongs ==
  /\ screen = "step2"
  /\ \E age \in SidebarAges, num_recs \in SidebarNumRecs :
        IF MainContent(selected_song) = "step2"
        THEN IF selected_song_idx = None
             THEN call' = Some(RaisedCall(age, num_recs))
             ELSE \E c \in get_similar_songs_optimized(df, selected_song_idx[1], age, num_recs) :
                     call' = Some(c)
        ELSE call' = None
  /\ search_query' = << >>
  /\ results' = << >>
  /\ screen' = MainContent(selected_song)
  /\ UNCHANGED <<df, selected_song, selected_song_idx, age_in, group_out, prev_age, prev_group>>

Next ==
  \/ TypeQuery
  \/ SelectSearchResult
  \/ SelectPopular
  \/ ClearSelection
  \/ ChooseDifferentSong
  \/ GetSimilarSongs

Spec == Init /\ [][Next]_vars

\* ------------------------------------------------------------------------
\* Properties
\* ------------------------------------------------------------------------
Called == call /= None
TheCall == call[1]
Min(a, b) == IF a <= b THEN a ELSE b
DfLen == FrameLen(DfFrame(df))
Segments(f) == { f[i] : i \in 1..Len(f) }

\* segment s lies inside one segment of frame f
Within(s, f) == \E p \in Segments(f) : p.lo <= s.lo /\ s.hi <= p.hi

\* the number of rows of segment p that frame f holds
Held(p, f) ==
  SumSeq([i \in 1..Len(f) |-> IF p.lo <= f[i].lo /\ f[i].hi <= p.hi THEN SegLen(f[i]) ELSE 0])

\* frame f holds rows of frame g only, and no row of g that f leaves out
\* is more popular than a row of f
MostPopularOf(f, g) ==
  /\ \A s \in Segments(f) : Within(s, g)
  /\ \A p \in Segments(g) :
        Held(p, f) < SegLen(p) =>
          \A s \in Segments(f) : p.t.popularity <= s.t.popularity

PoolUnexpanded == Called /\ FrameLen(TheCall.pre_filter) >= 100

\* C1 as stated: when the pre-filter matched at least 100 tracks, every
\* track of the candidate pool has a preferred genre of the bucket and
\* danceability, energy and valence at or above the bucket's minimums.
C1_Original ==
  PoolUnexpanded =>
    LET prefs == age_groups[TheCall.age_group]
    IN  \A s \in Segments(TheCall.age_filtered) :
          /\ GenreLower(s.t.track_genre) \in prefs.genres
          /\ s.t.danceability >= prefs.min_danceability
          /\ s.t.energy >= prefs.min_energy
          /\ s.t.valence >= prefs.min_valence

\* C1 amended: when the pre-filter matched at least 100 tracks, every track
\* of the candidate pool satisfies at least one of: its lower-cased genre
\* is a preferred genre of the bucket, its danceability is at or above the
\* bucket's minimum minus 0.3, its energy is at or above the bucket's
\* minimum minus 0.3 (the differences as doubles); valence is not tested.
C1_Amended ==
  PoolUnexpanded =>
    LET prefs == age_groups[TheCall.age_group]
    IN  \A s \in Segments(TheCall.age_filtered) :
          \/ GenreLower(s.t.track_genre) \in prefs.genres
          \/ s.t.danceability * 10 >= FloatMinus03(prefs.min_danceability)
          \/ s.t.energy * 10 >= FloatMinus03(prefs.min_energy)

\* an unexpanded pool with a track outside the bucket's genres and below
\* one of its unrelaxed minimums
C1_Witness ==
  /\ PoolUnexpanded
  /\ \E s \in Segments(TheCall.age_filtered) :
        /\ GenreLower(s.t.track_genre) \notin age_groups[TheCall.age_group].genres
        /\ s.t.energy < age_groups[TheCall.age_group].min_energy

\* C2 as stated: on the scoring path the popularity term of every
\* candidate is a defined value in [0,1], the candidate's popularity
\* divided by the greatest popularity among the candidates, and the
\* combined score is 0.7 * similarity + 0.3 * that term.
C2_Claim ==
  (Called /\ TheCall.path = "scored") =>
    LET c == TheCall.candidates_df
        max_popularity == MaxSeq([i \in 1..Len(c) |-> c[i].t.popularity])
    IN  \A i \in 1..Len(c) :
          /\ ~c[i].pop_term.nan
          /\ c[i].pop_term.v >= 0 /\ c[i].pop_term.v <= 1000
          /\ max_popularity /= 0
          /\ c[i].pop_term.v = (c[i].t.popularity * 1000) \div max_popularity
          /\ ~c[i].combined_score.nan
          /\ c[i].combined_score.v
               = (7 * c[i].similarity_score.v + 3 * c[i].pop_term.v) \div 10

\* C3 as stated: on the scoring path with C candidates the result holds
\* exactly min(N, C) distinct rows of the candidate pool, in
\* non-increasing order of combined score, and no candidate left out has a
\* strictly higher combined score than a returned row.
C3_Claim ==
  (Called /\ TheCall.path = "scored") =>
    LET c == TheCall.candidates_df
        rows == TheCall.rows
        scores == TheCall.scores
        returned(i) == \E r \in 1..Len(rows) : c[i].lo <= rows[r] /\ rows[r] <= c[i].hi
        allReturned(i) == \A x \in (c[i].lo)..(c[i].hi) : \E r \in 1..Len(rows) : rows[r] = x
    IN  /\ Len(rows) = Min(TheCall.num_recommendations, FrameLen(c))
        /\ \A i, j \in 1..Len(rows) : i /= j => rows[i] /= rows[j]
        /\ \A r \in 1..Len(rows) :
              /\ rows[r] /= TheCall.idx
              /\ \E i \in 1..Len(c) :
                    /\ c[i].lo <= rows[r] /\ rows[r] <= c[i].hi
                    /\ scores[r] = c[i].combined_score
              /\ \E s \in Segments(TheCall.age_filtered) : s.lo <= rows[r] /\ rows[r] <= s.hi
        /\ \A r \in 1..(Len(rows) - 1) : FloatGe(scores[r], scores[r + 1])
        /\ \A i \in 1..Len(c) :
              (SegLen(c[i]) > Len(rows) \/ ~allReturned(i)) =>
                 \A r \in 1..Len(rows) : ~FloatGt(c[i].combined_score, scores[r])

\* C4: the pool after the cap and expand steps has min(100, len(df)) <= P
\* <= 5000 rows; a pre-filter result above 5000 is cut to its 5000 most
\* popular rows, and one below 100 is replaced by the min(2000, len(df))
\* most popular rows of df.
C4_PoolSize ==
  Called =>
    LET pool == TheCall.age_filtered
        pre == TheCall.pre_filter
    IN  /\ Min(100, DfLen) <= FrameLen(pool)
        /\ FrameLen(pool) <= 5000
        /\ FrameLen(pre) > 5000 => (FrameLen(pool) = 5000 /\ MostPopularOf(pool, pre))
        /\ FrameLen(pre) < 100 =>
              (FrameLen(pool) = Min(2000, DfLen) /\ MostPopularOf(pool, DfFrame(df)))
        /\ (FrameLen(pre) >= 100 /\ FrameLen(pre) <= 5000) => pool = pre

\* a pre-filter result above 5000 that was cut, leaving out a matching row
C4_Witness ==
  /\ Called
  /\ FrameLen(TheCall.pre_filter) > 5000
  /\ FrameLen(TheCall.age_filtered) = 5000
  /\ Len(TheCall.pre_filter) > 1

Rank(group) ==
  CASE group = "Teen" -> 1
    [] group = "Young Adult" -> 2
    [] group = "Adult" -> 3
    [] group = "Senior" -> 4

\* C5: for every age from 10 to 100 get_age_group returns one of the four
\* buckets, each with a genre set and three minimums in age_groups: Teen
\* below 20, Young Adult from 20 below 30, Adult from 30 below 50, Senior
\* from 50; a greater age never gets a younger bucket.
C5_AgeGroup ==
  age_in /= None =>
    LET age == age_in[1]
        group == group_out[1]
    IN  /\ group \in {"Teen", "Young Adult", "Adult", "Senior"}
        /\ group \in DOMAIN age_groups
        /\ age_groups[group].genres /= { }
        /\ {"min_danceability", "min_energy", "min_valence"} \subseteq DOMAIN age_groups[group]
        /\ (age < 20) = (group = "Teen")
        /\ (20 <= age /\ age < 30) = (group = "Young Adult")
        /\ (30 <= age /\ age < 50) = (group = "Adult")
        /\ (age >= 50) = (group = "Senior")
        /\ (prev_age /= None /\ prev_age[1] <= age) => Rank(prev_group[1]) <= Rank(group)

\* age 19 mapped to Teen, then age 20 mapped to Young Adult
C5_Witness ==
  /\ prev_age = Some(19) /\ prev_group = Some("Teen")
  /\ age_in = Some(20) /\ group_out = Some("Young Adult")

\* C6 as stated: whenever the call returns a result, the selected song is
\* not among the returned rows, on the scoring path and on the path taken
\* when no candidates remain.
C6_Claim ==
  (Called /\ TheCall.outcome = "returned") =>
    \A r \in 1..Len(TheCall.rows) : TheCall.rows[r] /= TheCall.idx

\* C7 as stated: when removing the selected song leaves no candidates the
\* call does not fail: it returns exactly num_recommendations rows of the
\* catalog, with the age bucket and its description.
C7_Claim ==
  (Called /\ TheCall.path = "sample") =>
    /\ TheCall.outcome = "returned"
    /\ Len(TheCall.rows) = TheCall.num_recommendations
    /\ \A r \in 1..Len(TheCall.rows) : TheCall.rows[r] >= 0 /\ TheCall.rows[r] < DfLen
    /\ TheCall.age_group = get_age_group(TheCall.age)
    /\ TheCall.description = age_groups[TheCall.age_group].description

\* C8: get_similar_songs_optimized is invoked only in a run in which a
\* song is selected, with that song's index, and the run of a state with
\* no selected song offers the Step 1 screen only.
C8_CallOnlyWhenSelected ==
  /\ Called => (selected_song /= None /\ selected_song_idx /= None
                 /\ TheCall.idx = selected_song_idx[1])
  /\ (selected_song = None) = (screen = "step1")
  /\ (selected_song /= None) = (screen = "step2")

\* a recommendation request made for the selected song
C8_Witness ==
  /\ Called
  /\ selected_song /= None
  /\ TheCall.idx = selected_song_idx[1]
  /\ screen = "step2"

\* verbatim substring test
Substring(text, q) ==
  \E i \in 0..(Len(text) - Len(q)) : \A k \in 1..Len(q) : q[k] = text[i + k]

NameContains(t, query) ==
  \/ Substring(StrLower(t.track_name), StrLower(query))
  \/ Substring(StrLower(t.artists), StrLower(query))

\* C9 as stated: search_songs returns at most 20 rows, the first rows in
\* catalog order whose track name or artists contain the query
\* case-insensitively; every returned row matches, and an empty query
\* returns no rows.
C9_Claim ==
  /\ FrameLen(results) <= 20
  /\ search_query = << >> => results = << >>
  /\ \A s \in Segments(results) : NameContains(s.t, search_query)
  /\ search_query /= << >> =>
        results = HeadFrame(SelectSeq(DfFrame(df), LAMBDA s : NameContains(s.t, search_query)), 20)

SelectionConsistent ==
  /\ (selected_song = None) = (selected_song_idx = None)
  /\ selected_song_idx /= None =>
        /\ selected_song_idx[1] >= 0
        /\ selected_song_idx[1] < DfLen
        /\ RowAt(df, selected_song_idx[1]) = selected_song[1]

SelectionStep ==
  (selected_song' /= selected_song \/ selected_song_idx' /= selected_song_idx) =>
     /\ call' = None
     /\ \/ selected_song = None /\ selected_song' /= None /\ selected_song_idx' /= None
        \/ selected_song /= None /\ selected_song' = None /\ selected_song_idx' = None

\* C10: in every session state selected_song is None exactly when
\* selected_song_idx is None, and a selected_song_idx is a row position of
\* df whose row is selected_song; both fields change only together, from
\* None to a selection or from a selection to None, and never in a run
\* that requests recommendations.
C10_SelectionFields == []SelectionConsistent /\ [][SelectionStep]_vars

\* a song still selected, with its index, after a recommendation
\* request that raised
C10_Witness ==
  /\ selected_song /= None
  /\ selected_song_idx /= None
  /\ Called
  /\ TheCall.outcome = "raised"

====
